---- MODULE Spec2Model ----
(***************************************************************************)
(* A model of src/app.py: the SQLite-backed value store (get_conn,         *)
(* add_value, clear_values, read_values), the script's button handlers,    *)
(* and the rendering data the script derives from a snapshot (descriptive  *)
(* statistics, format_value, histogram binning).                           *)
(*                                                                         *)
(* app.py is a script: one execution of it ("a run") serves one rerun of   *)
(* one browser session.  The statements at its top level, DB_LOCK =        *)
(* threading.Lock() at line 185 included, are executed by every run        *)
(* before the run reaches the handlers at lines 300-328.  The file         *)
(* data.db is what the runs share.                                         *)
(***************************************************************************)
EXTENDS Integers, Sequences, FiniteSets, TLC

VARIABLES
    tableExists,      \* data.db holds the table "entries"
    entries,          \* the committed rows of the table: a set of [id, value]
    sqlite_sequence,  \* AUTOINCREMENT's record of the largest id ever given
    dbWriter,         \* the session whose connection holds SQLite's write lock
    holder,           \* holder[l]: the session inside "with l:", for a Lock l
    DB_LOCK,          \* DB_LOCK[s]: the Lock the run of s bound at line 185
    pc,               \* pc[s]: where the run of s stands
    fn,               \* fn[s]: the store function the run of s is in
    number,           \* number[s]: the number_input value of the run
    pend,             \* pend[s]: the uncommitted change of s's connection
    df,               \* df[s]: the DataFrame read_values returned
    limit,            \* limit[s]: the limit read_values was called with
    toast,            \* toast[s]: the notice the handlers showed
    raised,           \* raised[s]: the exception a store call of the run raised
    hist,             \* history: the values committed since the table was last emptied
    x,                \* rendering: the snapshot's values (line 329)
    plot_type,        \* rendering: the radio's choice (line 278)
    bins,             \* rendering: the slider's value (line 280)
    stats,            \* rendering: the dict stats (lines 410-419)
    stat_items,       \* rendering: the statistics panel as shown (lines 406-408, 433-447)
    counts,           \* rendering: the histogram's bin counts (lines 371, 381)
    edges,            \* rendering: the histogram's outer edges
    rpc               \* rendering: "input" before, "drawn" after lines 351-447

storeVars == <<tableExists, entries, sqlite_sequence, dbWriter, holder, DB_LOCK,
               pc, fn, number, pend, df, limit, toast, raised,
               hist>>
renderVars == <<x, plot_type, bins, stats, stat_items, counts, edges, rpc>>
vars == <<tableExists, entries, sqlite_sequence, dbWriter, holder, DB_LOCK,
          pc, fn, number, pend, df, limit, toast, raised,
          hist,
          x, plot_type, bins, stats, stat_items, counts, edges, rpc>>

(***************************************************************************)
(* Bounds of the model.                                                    *)
(***************************************************************************)
NumSessions == 2      \* concurrent browser sessions
MaxSeq == 2           \* inserts are started while fewer ids than this are in use
MaxLimit == 2         \* read_values is called with limit None or 0..MaxLimit
MaxN == 4             \* rendering: a snapshot holds at most MaxN values
MaxMag == 2           \* rendering: the snapshot's values are 0..MaxMag
FloatMax == 5         \* rendering: the largest finite magnitude of a float

\* The slider's range (line 280).
BinsMin == 5
BinsMax == 60

Sessions == 1..NumSessions
NoSession == 0
Locks == 1..NumSessions
NoLock == 0

(***************************************************************************)
(* Python floats, as far as the store tells them apart.                    *)
(***************************************************************************)
Fin(v) == [k |-> "fin", v |-> v]
NaN == [k |-> "nan", v |-> 0]
PosInf == [k |-> "inf", v |-> 1]
NegInf == [k |-> "inf", v |-> -1]
None_ == [k |-> "none", v |-> 0]
Unread == [k |-> "unread", v |-> 0]    \* the number of a run that does not read it
\* The finite number a session submits is its own, so that each insert of
\* concurrent sessions carries a distinct value.
FiniteVals == {Fin(s) : s \in Sessions}
Numbers(s) == {Fin(s), NaN, PosInf, NegInf, None_}

NoChange == [kind |-> "none", id |-> 0, value |-> None_]
NoLimit == [given |-> FALSE, n |-> 0]
Limits == {NoLimit} \cup {[given |-> TRUE, n |-> n] : n \in 0..MaxLimit}

Min(a, b) == IF a <= b THEN a ELSE b
Max(a, b) == IF a >= b THEN a ELSE b

Ids(rows) == {r.id : r \in rows}
MaxId(rows) == IF rows = {} THEN 0 ELSE CHOOSE i \in Ids(rows) : \A j \in Ids(rows) : j <= i

\* np.isfinite(x), line 306.
isfinite_always(v) == TRUE
isfinite(v) == v.k = "fin"

\* The id INTEGER PRIMARY KEY AUTOINCREMENT gives a new row (line 193): one more
\* than the largest id the table ever held.
NextId(rows, sq) == Max(sq, MaxId(rows)) + 1

\* SQLite lets one connection at a time hold the write lock of data.db; a
\* second writer waits in sqlite3's busy handler (lines 190, 205, 216).
CanWrite_unlocked(s, w) == TRUE
CanWrite(s, w) == w = NoSession \/ w = s

\* "with DB_LOCK:" leaves the lock released, whether the block returned or
\* raised (lines 203, 214, 222).
WithExit_noFinally(h, l, raising) == IF raising THEN h ELSE [h EXCEPT ![l] = NoSession]
WithExit(h, l, raising) == [h EXCEPT ![l] = NoSession]

\* ORDER BY id DESC (line 226) and ORDER BY id ASC (line 232).
RECURSIVE OrderByIdDesc(_)
OrderByIdDesc(rows) ==
    IF rows = {} THEN <<>>
    ELSE LET r == CHOOSE r \in rows : \A q \in rows : r.id >= q.id
         IN <<r>> \o OrderByIdDesc(rows \ {r})

OrderByIdAsc_desc(rows) == OrderByIdDesc(rows)
RECURSIVE OrderByIdAsc(_)
OrderByIdAsc(rows) ==
    IF rows = {} THEN <<>>
    ELSE LET r == CHOOSE r \in rows : \A q \in rows : r.id <= q.id
         IN <<r>> \o OrderByIdAsc(rows \ {r})

Take(seq, n) == SubSeq(seq, 1, Min(n, Len(seq)))
Reverse(seq) == [i \in 1..Len(seq) |-> seq[Len(seq) + 1 - i]]

\* "if limit:" of line 224: None and 0 are false.
Truthy(lim) == lim.given /\ lim.n # 0

\* The DataFrame read_values returns (lines 224-232).
read_values_noReverse(rows, lim) ==
    IF Truthy(lim) THEN Take(OrderByIdDesc(rows), lim.n) ELSE OrderByIdAsc(rows)
read_values(rows, lim) ==
    IF Truthy(lim)
    THEN Reverse(Take(OrderByIdDesc(rows), lim.n))
    ELSE OrderByIdAsc(rows)

\* get_conn's CREATE TABLE IF NOT EXISTS (lines 190-198).
get_conn_noCreate(exists) == exists
get_conn(exists) == TRUE

ValuesOf(seq) == [i \in 1..Len(seq) |-> seq[i].value]

InStore(s) == pc[s] \in {"conn", "exec", "commit"}
AddsInFlight == Cardinality({s \in Sessions : pc[s] # "idle" /\ fn[s] = "add_value"})

\* threading.Lock() of line 185 makes a new object at every execution.  No
\* Lock outlives the run that made it, so the Lock of the current run of s
\* is named s.
NewLock(s) == s

InitStore ==
    /\ tableExists = FALSE
    /\ entries = {}
    /\ sqlite_sequence = 0
    /\ dbWriter = NoSession
    /\ holder = [l \in Locks |-> NoSession]
    /\ DB_LOCK = [s \in Sessions |-> NoLock]
    /\ pc = [s \in Sessions |-> "idle"]
    /\ fn = [s \in Sessions |-> "none"]
    /\ number = [s \in Sessions |-> Unread]
    /\ pend = [s \in Sessions |-> NoChange]
    /\ df = [s \in Sessions |-> <<>>]
    /\ limit = [s \in Sessions |-> NoLimit]
    /\ toast = [s \in Sessions |-> "none"]
    /\ raised = [s \in Sessions |-> "none"]
    /\ hist = <<>>

\* What the add_btn handler does with the number (lines 300-312).
add_btn(v) ==
    IF v = None_ THEN "enter_number"
    ELSE IF isfinite(v) THEN "add_value"
    ELSE "must_be_finite"

\* One run of the script up to its first store call: line 185 binds a new
\* Lock, lines 258-297 read the widgets, lines 300-316 dispatch the button.
\* A rejected number is answered with a toast and the run goes on to the
\* read_values() of line 328.
RunScript(s) ==
    /\ pc[s] = "idle"
    /\ \E clicked \in {"add", "reset", "none"} :
       \E v \in (IF clicked = "add" THEN Numbers(s) ELSE {Unread}) :
          /\ clicked = "add" /\ add_btn(v) = "add_value"
                => sqlite_sequence + AddsInFlight < MaxSeq
          /\ number' = [number EXCEPT ![s] = v]
          /\ fn' = [fn EXCEPT ![s] =
                      IF clicked = "add" /\ add_btn(v) = "add_value" THEN "add_value"
                      ELSE IF clicked = "reset" THEN "clear_values"
                      ELSE "read_values"]
          /\ toast' = [toast EXCEPT ![s] =
                      IF clicked = "add" /\ add_btn(v) # "add_value" THEN add_btn(v)
                      ELSE "none"]
    /\ DB_LOCK' = [DB_LOCK EXCEPT ![s] = NewLock(s)]
    /\ pc' = [pc EXCEPT ![s] = "lock"]
    /\ UNCHANGED <<tableExists, entries, sqlite_sequence, dbWriter, holder, pend, df,
                   limit, raised, hist>>
    /\ UNCHANGED renderVars

\* "with DB_LOCK:" entered (lines 203, 214, 222).  A toast shown and an
\* exception caught before the call are behind the run by now.
Acquire(s) ==
    /\ pc[s] = "lock"
    /\ holder[DB_LOCK[s]] = NoSession
    /\ holder' = [holder EXCEPT ![DB_LOCK[s]] = s]
    /\ pc' = [pc EXCEPT ![s] = "conn"]
    /\ toast' = [toast EXCEPT ![s] = "none"]
    /\ raised' = [raised EXCEPT ![s] = "none"]
    /\ number' = [number EXCEPT ![s] = IF fn[s] = "add_value" THEN number[s] ELSE Unread]
    /\ UNCHANGED <<tableExists, entries, sqlite_sequence, dbWriter, DB_LOCK, fn,
                   pend, df, limit, hist>>
    /\ UNCHANGED renderVars

\* conn = get_conn() (lines 188-199): the table is created when it is absent,
\* a write of its own that SQLite commits at once.
GetConn(s) ==
    /\ pc[s] = "conn"
    /\ (~tableExists /\ get_conn(tableExists)) => CanWrite(s, dbWriter)
    /\ tableExists' = get_conn(tableExists)
    /\ pc' = [pc EXCEPT ![s] = "exec"]
    /\ UNCHANGED <<entries, sqlite_sequence, dbWriter, holder, DB_LOCK, fn, number, pend,
                   df, limit, toast, raised, hist>>
    /\ UNCHANGED renderVars

\* An exception leaves the store function: the with block releases the lock,
\* the connection is dropped with its uncommitted change, and the exception
\* reaches the caller.  The add_btn handler catches it (line 311), shows a
\* toast, and the run goes on to read_values; from clear_values and
\* read_values it leaves the script (lines 315, 328).
Unwind(s, e) ==
    /\ holder' = WithExit(holder, DB_LOCK[s], TRUE)
    /\ dbWriter' = IF dbWriter = s THEN NoSession ELSE dbWriter
    /\ pend' = [pend EXCEPT ![s] = NoChange]
    /\ raised' = [raised EXCEPT ![s] = e]
    /\ number' = [number EXCEPT ![s] = Unread]
    /\ IF fn[s] = "add_value"
       THEN /\ toast' = [toast EXCEPT ![s] = "add_failed"]
            /\ fn' = [fn EXCEPT ![s] = "read_values"]
            /\ pc' = [pc EXCEPT ![s] = "lock"]
       ELSE /\ pc' = [pc EXCEPT ![s] = "aborted"]
            /\ UNCHANGED <<fn, toast>>

\* conn.execute("INSERT ...") (lines 205-208): sqlite3 opens a transaction,
\* takes the write lock and stages the row.  float(v) of line 207 raises for
\* None; NaN is bound as NULL, which value REAL NOT NULL refuses.
Insert(s) ==
    /\ pc[s] = "exec" /\ fn[s] = "add_value"
    /\ IF ~tableExists
       THEN /\ Unwind(s, "NoSuchTable")
            /\ UNCHANGED <<tableExists, entries, sqlite_sequence, DB_LOCK, df,
                           limit, hist>>
       ELSE IF number[s].k \in {"nan", "none"}
       THEN /\ Unwind(s, IF number[s].k = "nan" THEN "IntegrityError" ELSE "TypeError")
            /\ UNCHANGED <<tableExists, entries, sqlite_sequence, DB_LOCK, df,
                           limit, hist>>
       ELSE /\ CanWrite(s, dbWriter)
            /\ dbWriter' = s
            /\ pend' = [pend EXCEPT ![s] =
                          [kind |-> "insert",
                           id |-> NextId(entries, sqlite_sequence),
                           value |-> number[s]]]
            /\ pc' = [pc EXCEPT ![s] = "commit"]
            /\ UNCHANGED <<tableExists, entries, sqlite_sequence, holder, DB_LOCK, fn,
                           number, df, limit, toast, raised, hist>>
    /\ UNCHANGED renderVars

\* conn.execute("DELETE FROM entries") (line 216).
Delete(s) ==
    /\ pc[s] = "exec" /\ fn[s] = "clear_values"
    /\ IF ~tableExists
       THEN /\ Unwind(s, "NoSuchTable")
            /\ UNCHANGED <<tableExists, entries, sqlite_sequence, DB_LOCK, df,
                           limit, hist>>
       ELSE /\ CanWrite(s, dbWriter)
            /\ dbWriter' = s
            /\ pend' = [pend EXCEPT ![s] = [kind |-> "delete", id |-> 0, value |-> None_]]
            /\ pc' = [pc EXCEPT ![s] = "commit"]
            /\ UNCHANGED <<tableExists, entries, sqlite_sequence, holder, DB_LOCK, fn,
                           number, df, limit, toast, raised, hist>>
    /\ UNCHANGED renderVars

\* pd.read_sql_query(...), conn.close(), the end of the with block and the
\* return (lines 224-234): one SELECT, which sees committed rows only.  The
\* script calls read_values() (line 328); the limit is the function's
\* parameter.
Select(s) ==
    /\ pc[s] = "exec" /\ fn[s] = "read_values"
    /\ IF ~tableExists
       THEN /\ Unwind(s, "NoSuchTable")
            /\ UNCHANGED <<tableExists, entries, sqlite_sequence, DB_LOCK, df,
                           limit, hist>>
       ELSE \E lim \in Limits :
            /\ df' = [df EXCEPT ![s] = read_values(entries, lim)]
            /\ limit' = [limit EXCEPT ![s] = lim]
            /\ holder' = WithExit(holder, DB_LOCK[s], FALSE)
            /\ pc' = [pc EXCEPT ![s] = "done"]
            /\ UNCHANGED <<tableExists, entries, sqlite_sequence, dbWriter,
                           DB_LOCK, fn, number, pend, toast, raised, hist>>
    /\ UNCHANGED renderVars

\* conn.commit(), conn.close(), the end of the with block and the return
\* (lines 209-210, 217-218): the staged change becomes the table's content
\* in one step and the write lock is given up.  Then the handler's toast
\* (lines 308, 316), and the run goes on to the read_values() of line 328.
Commit(s) ==
    /\ pc[s] = "commit"
    /\ IF pend[s].kind = "insert"
       THEN /\ entries' = entries \cup {[id |-> pend[s].id, value |-> pend[s].value]}
            /\ sqlite_sequence' = Max(sqlite_sequence, pend[s].id)
            /\ hist' = Append(hist, pend[s].value)
       ELSE /\ entries' = {}
            /\ UNCHANGED sqlite_sequence
            /\ hist' = <<>>
    /\ dbWriter' = IF dbWriter = s THEN NoSession ELSE dbWriter
    /\ pend' = [pend EXCEPT ![s] = NoChange]
    /\ holder' = WithExit(holder, DB_LOCK[s], FALSE)
    /\ toast' = [toast EXCEPT ![s] = IF fn[s] = "add_value" THEN "added" ELSE "cleared"]
    /\ fn' = [fn EXCEPT ![s] = "read_values"]
    /\ pc' = [pc EXCEPT ![s] = "lock"]
    /\ number' = [number EXCEPT ![s] = Unread]
    /\ UNCHANGED <<tableExists, DB_LOCK, df, limit, raised>>
    /\ UNCHANGED renderVars

\* The backing file cannot be opened or written, or stays locked past
\* sqlite3's timeout: connect, execute or commit raises sqlite3.Error.
StorageError(s) ==
    /\ pc[s] \in {"conn", "exec", "commit"}
    /\ Unwind(s, "StorageUnavailable")
    /\ UNCHANGED <<tableExists, entries, sqlite_sequence, DB_LOCK, df, limit,
                   hist>>
    /\ UNCHANGED renderVars

\* The run ends, normally or with the exception shown, and its module
\* namespace (DB_LOCK with it) is dropped.
EndRun(s) ==
    /\ pc[s] \in {"done", "aborted"}
    /\ pc' = [pc EXCEPT ![s] = "idle"]
    /\ fn' = [fn EXCEPT ![s] = "none"]
    /\ df' = [df EXCEPT ![s] = <<>>]
    /\ limit' = [limit EXCEPT ![s] = NoLimit]
    /\ raised' = [raised EXCEPT ![s] = "none"]
    /\ DB_LOCK' = [DB_LOCK EXCEPT ![s] = NoLock]
    /\ UNCHANGED <<tableExists, entries, sqlite_sequence, dbWriter, holder, number, pend,
                   toast, hist>>
    /\ UNCHANGED renderVars

(***************************************************************************)
(* Rendering data (lines 327-447).  A float is a rational n/d of magnitude *)
(* at most FloatMax, +inf or -inf (n is the sign), or nan; rounding is not *)
(* modelled, overflow is.  "sqrt" is the finite root of n/d and "real" a   *)
(* finite number whose magnitude the model does not follow.                *)
(***************************************************************************)
Rat(n, d) == [k |-> "fin", n |-> n, d |-> d]
FInf(sign) == [k |-> "inf", n |-> sign, d |-> 1]
FNaN == [k |-> "nan", n |-> 0, d |-> 1]
FReal == [k |-> "real", n |-> 0, d |-> 1]
Absent == [k |-> "absent", n |-> 0, d |-> 1]
Sign(n) == IF n > 0 THEN 1 ELSE IF n < 0 THEN -1 ELSE 0
Overflow(n, d) == n > FloatMax * d \/ -n > FloatMax * d
RECURSIVE Gcd(_, _)
Gcd(a, b) == IF b = 0 THEN a ELSE Gcd(b, a % b)
Abs(n) == IF n < 0 THEN -n ELSE n
\* The float of n/d (d positive), in lowest terms.
Round(n, d) ==
    IF Overflow(n, d) THEN FInf(Sign(n))
    ELSE LET g == Gcd(Abs(n), d) IN Rat(n \div g, d \div g)
IsFinite(a) == a.k \in {"fin", "sqrt", "real"}

FAdd(a, b) ==
    IF a.k = "nan" \/ b.k = "nan" THEN FNaN
    ELSE IF a.k = "inf" THEN (IF b.k = "inf" /\ b.n # a.n THEN FNaN ELSE a)
    ELSE IF b.k = "inf" THEN b
    ELSE Round(a.n * b.d + b.n * a.d, a.d * b.d)
FNeg(a) == IF a.k = "nan" THEN FNaN ELSE [a EXCEPT !.n = -a.n]
FSub(a, b) == FAdd(a, FNeg(b))
FMul(a, b) ==
    IF a.k = "nan" \/ b.k = "nan" THEN FNaN
    ELSE IF a.k = "inf" \/ b.k = "inf"
         THEN (IF Sign(a.n) * Sign(b.n) = 0 THEN FNaN ELSE FInf(Sign(a.n) * Sign(b.n)))
    ELSE Round(a.n * b.n, a.d * b.d)
\* a / m for an integer m; 0/0 is nan.
FDivInt(a, m) ==
    IF a.k = "nan" THEN FNaN
    ELSE IF a.k = "inf" THEN (IF m = 0 THEN a ELSE FInf(a.n * Sign(m)))
    ELSE IF m = 0 THEN (IF a.n = 0 THEN FNaN ELSE FInf(Sign(a.n)))
    ELSE Round(a.n * Sign(m), a.d * m * Sign(m))
FSqrt(a) ==
    IF a.k = "fin" THEN (IF a.n < 0 THEN FNaN ELSE [a EXCEPT !.k = "sqrt"])
    ELSE IF a.k = "inf" /\ a.n < 0 THEN FNaN
    ELSE a

\* np.add.reduce over fewer than eight floats: left to right.
RECURSIVE FSum(_)
FSum(seq) ==
    IF seq = <<>> THEN Rat(0, 1)
    ELSE FAdd(FSum(SubSeq(seq, 1, Len(seq) - 1)), seq[Len(seq)])

RECURSIVE SumSeq(_)
SumSeq(seq) == IF seq = <<>> THEN 0 ELSE seq[1] + SumSeq(Tail(seq))

RECURSIVE Sorted(_)
Sorted(seq) ==
    IF seq = <<>> THEN <<>>
    ELSE LET i == CHOOSE i \in 1..Len(seq) : \A j \in 1..Len(seq) : seq[i] <= seq[j]
         IN <<seq[i]>> \o Sorted(SubSeq(seq, 1, i - 1) \o SubSeq(seq, i + 1, Len(seq)))

Floats(xs) == [i \in 1..Len(xs) |-> Rat(xs[i], 1)]
MinOf(xs) == Sorted(xs)[1]
MaxOf(xs) == Sorted(xs)[Len(xs)]

\* np.nanmean(x) (line 412): the sum, then the division.
Mean(xs) == FDivInt(FSum(Floats(xs)), Len(xs))

\* np.nanmedian(x) (line 413): the mean of the middle element, or of the two.
Median(xs) ==
    LET n == Len(xs)
        s == Floats(Sorted(xs))
    IN IF n % 2 = 1 THEN FDivInt(FSum(<<s[(n + 1) \div 2]>>), 1)
       ELSE FDivInt(FSum(<<s[n \div 2], s[n \div 2 + 1]>>), 2)

\* The p-th powers of the deviations from the mean, and their mean.
RECURSIVE FPow(_, _)
FPow(a, p) == IF p = 1 THEN a ELSE FMul(FPow(a, p - 1), a)
Powers(xs, p) ==
    LET mean == Mean(xs)
    IN [i \in 1..Len(xs) |-> FPow(FSub(Rat(xs[i], 1), mean), p)]
Moment(xs, p) == FDivInt(FSum(Powers(xs, p)), Len(xs))

\* np.nanvar(x, ddof=1) and np.nanstd(x, ddof=1): the squared deviations'
\* sum over N - 1, and its root.
nanvar(xs) == FDivInt(FSum(Powers(xs, 2)), Len(xs) - 1)
nanstd(xs) == FSqrt(nanvar(xs))

\* scipy.stats.skew(x, bias=False) and kurtosis(x, fisher=True, bias=False):
\* nan for a sample without spread, else a quotient of the central moments,
\* whose magnitude the model does not follow.
skew(xs) ==
    LET m2 == Moment(xs, 2)
        m3 == Moment(xs, 3)
    IN IF m2.k # "fin" \/ m3.k = "nan" THEN FNaN
       ELSE IF m2.n = 0 THEN FNaN
       ELSE IF m3.k = "inf" THEN m3
       ELSE FReal
kurtosis(xs) ==
    LET m2 == Moment(xs, 2)
        m4 == Moment(xs, 4)
    IN IF m2.k # "fin" \/ m4.k = "nan" THEN FNaN
       ELSE IF m2.n = 0 THEN FNaN
       ELSE IF m4.k = "inf" THEN m4
       ELSE FReal

\* Lines 414-417: the statistics that need more than one, two, three values.
Variance(xs) == IF Len(xs) > 1 THEN nanvar(xs) ELSE FNaN
SD(xs) == IF Len(xs) > 1 THEN nanstd(xs) ELSE FNaN
Skewness_unguarded(xs) == skew(xs)
Skewness(xs) == IF Len(xs) > 2 THEN skew(xs) ELSE FNaN
Kurtosis(xs) == IF Len(xs) > 3 THEN kurtosis(xs) ELSE FNaN

StatKeys == {"N", "Mean", "Median", "Variance", "SD", "Skewness", "Kurtosis", "Min", "Max"}

\* The dict stats of lines 410-419.
Stats(xs) ==
    [N |-> Rat(Len(xs), 1),
     Mean |-> Mean(xs),
     Median |-> Median(xs),
     Variance |-> Variance(xs),
     SD |-> SD(xs),
     Skewness |-> Skewness(xs),
     Kurtosis |-> Kurtosis(xs),
     Min |-> Rat(MinOf(xs), 1),
     Max |-> Rat(MaxOf(xs), 1)]
NoStats == [key \in StatKeys |-> Absent]
NoItems == [key \in StatKeys |-> "absent"]

\* format_value (lines 238-255): the placeholder for None, nan and the
\* infinities, else the number's digits, which the model does not spell out.
Placeholder == "em-dash"
format_value(value) ==
    IF value.k \in {"none", "absent"} THEN Placeholder
    ELSE IF value.k \in {"nan", "inf"} THEN Placeholder
    ELSE "digits"

\* np.histogram(x, bins) as ax.hist calls it (lines 371, 381).  Edges are
\* kept doubled, so that the half of a degenerate range stays an integer.
\* The outer edges: the minimum and the maximum, moved apart by a half each
\* when they are equal.
OuterEdges(xs) ==
    IF MinOf(xs) = MaxOf(xs)
    THEN <<2 * MinOf(xs) - 1, 2 * MaxOf(xs) + 1>>
    ELSE <<2 * MinOf(xs), 2 * MaxOf(xs)>>

\* The bin of v, from 0: the equal-width bin its offset falls in, the last
\* bin for the right outer edge.
BinIndex_noClamp(v, e, B) == ((2 * v - e[1]) * B) \div (e[2] - e[1])
BinIndex(v, e, B) ==
    LET i == ((2 * v - e[1]) * B) \div (e[2] - e[1])
    IN IF i = B THEN B - 1 ELSE i

Histogram(xs, B) ==
    LET e == OuterEdges(xs)
        bin == [i \in 1..Len(xs) |-> BinIndex(xs[i], e, B)]
    IN [b \in 1..B |-> Cardinality({i \in 1..Len(xs) : bin[i] = b - 1})]

RenderVals == 0..MaxMag
RECURSIVE SeqsUpTo(_, _)
SeqsUpTo(S, n) ==
    IF n = 0 THEN {<<>>}
    ELSE LET shorter == SeqsUpTo(S, n - 1)
         IN shorter \cup {Append(q, v) : q \in {r \in shorter : Len(r) = n - 1}, v \in S}

InitRenderIdle ==
    /\ x = <<>>
    /\ plot_type = "Histogram"
    /\ bins = 15
    /\ stats = NoStats
    /\ stat_items = NoItems
    /\ counts = <<>>
    /\ edges = <<0, 0>>
    /\ rpc = "off"

\* A rerun's snapshot (lines 328-329) and sidebar choices (lines 278-284).
InitRender ==
    /\ InitStore
    /\ x \in SeqsUpTo(RenderVals, MaxN)
    /\ plot_type \in {"Histogram", "Boxplot"}
    /\ bins \in (IF plot_type = "Histogram" THEN BinsMin..BinsMax ELSE {0})
    /\ stats = NoStats
    /\ stat_items = NoItems
    /\ counts = <<>>
    /\ edges = <<0, 0>>
    /\ rpc = "input"

\* The left column (lines 353-403): nothing is drawn for an empty snapshot;
\* the histogram's data otherwise.  The boxplot's and the density curve's
\* data are not modelled.
DrawPlot ==
    /\ rpc = "input"
    /\ IF Len(x) = 0 \/ plot_type # "Histogram"
       THEN UNCHANGED <<counts, edges>>
       ELSE /\ counts' = Histogram(x, bins)
            /\ edges' = OuterEdges(x)
    /\ rpc' = "plotted"
    /\ UNCHANGED <<x, plot_type, bins, stats, stat_items>>
    /\ UNCHANGED storeVars

\* The right column (lines 405-447): the placeholder alone for an empty
\* snapshot, else the statistics, each formatted.
DrawStats ==
    /\ rpc = "plotted"
    /\ IF Len(x) = 0
       THEN /\ stats' = NoStats
            /\ stat_items' = NoItems
       ELSE /\ stats' = Stats(x)
            /\ stat_items' = [key \in StatKeys |-> format_value(stats'[key])]
    /\ rpc' = "drawn"
    /\ UNCHANGED <<x, plot_type, bins, counts, edges>>
    /\ UNCHANGED storeVars

NextRender == DrawPlot \/ DrawStats

SpecRender == InitRender /\ [][NextRender]_vars

Step(s) ==
    \/ Acquire(s)
    \/ GetConn(s)
    \/ Insert(s)
    \/ Delete(s)
    \/ Select(s)
    \/ Commit(s)
    \/ StorageError(s)
    \/ EndRun(s)

Init == InitStore /\ InitRenderIdle

Next == \E s \in Sessions : RunScript(s) \/ Step(s)

Spec == Init /\ [][Next]_vars

\* Every run is a thread of its own, which the interpreter keeps scheduling:
\* a run that can take a step of a store call takes one.  Nothing makes a
\* session start another run.
SpecLive == Init /\ [][Next]_vars /\ \A s \in Sessions : WF_vars(Step(s))

(***************************************************************************)
(* The store's properties.                                                 *)
(***************************************************************************)
RowsOf(seq) == {seq[i] : i \in 1..Len(seq)}
Ascending(seq) == \A i \in 1..(Len(seq) - 1) : seq[i].id < seq[i + 1].id
Suffix(seq, n) == SubSeq(seq, Len(seq) - n + 1, Len(seq))
Writers == {s \in Sessions : InStore(s) /\ fn[s] \in {"add_value", "clear_values"}}
Selected(s) == pc[s] = "exec" /\ pc'[s] = "done"

\* C1: the add_value calls that returned since the store was last empty left
\* one row each: the rows are as many as the calls, no two rows share an id,
\* and the ids are contiguous integers, however the calls of concurrent
\* sessions interleaved.
C1_NoLostInsertNoDuplicateId ==
    /\ Cardinality(entries) = Len(hist)
    /\ Cardinality(Ids(entries)) = Cardinality(entries)
    /\ Ids(entries) = (MaxId(entries) - Len(hist) + 1)..MaxId(entries)

C1_Witness ==
    \E s, t \in Sessions :
        /\ s # t
        /\ pc[s] = "commit" /\ fn[s] = "add_value"
        /\ pc[t] = "exec" /\ fn[t] = "add_value"

\* C2: at most one session is between the connect and the close of a store
\* write, and a read returns committed rows only.
C2_AtMostOneWriter ==
    /\ Cardinality(Writers) <= 1
    /\ \A s \in Sessions : pc[s] = "done" =>
          \A r \in RowsOf(df[s]) : r.id <= sqlite_sequence /\ r.value \in FiniteVals

\* C3: a read_values() without limit returns the values inserted since the
\* store was last empty, in the order of their insertion, with strictly
\* increasing ids.
C3_RoundTrip ==
    [][\A s \in Sessions : (Selected(s) /\ ~Truthy(limit'[s])) =>
          /\ ValuesOf(df'[s]) = hist
          /\ Ascending(df'[s])]_vars

C3_Witness ==
    \E s \in Sessions :
        /\ pc[s] = "done" /\ ~Truthy(limit[s])
        /\ Len(df[s]) = 2
        /\ df[s][1].value # df[s][2].value

\* C4: read_values(limit=n) with n positive returns min(n, m) of the m stored
\* rows: the ones with the largest ids, which are the values inserted last,
\* in ascending id order; the store is left as it was.
C4_ReadRecent ==
    [][\A s \in Sessions : (Selected(s) /\ Truthy(limit'[s])) =>
          LET n == limit'[s].n
              k == Min(n, Cardinality(entries))
          IN /\ Len(df'[s]) = k
             /\ Ascending(df'[s])
             /\ RowsOf(df'[s]) \subseteq entries
             /\ \A r \in entries \ RowsOf(df'[s]) : \A q \in RowsOf(df'[s]) : r.id < q.id
             /\ ValuesOf(df'[s]) = Suffix(hist, k)
             /\ entries' = entries /\ sqlite_sequence' = sqlite_sequence]_vars

C4_Witness ==
    \E s, t \in Sessions :
        /\ Cardinality(entries) = 2
        /\ pc[s] = "done" /\ limit[s].given /\ limit[s].n = 1
        /\ Len(df[s]) = 1
        /\ df[s][1].id = MaxId(entries)
        /\ \E r \in entries : r.value # df[s][1].value
        /\ pc[t] = "done" /\ limit[t].given /\ limit[t].n = 2
        /\ Len(df[t]) = 2
        /\ df[t][1].id < df[t][2].id /\ df[t][1].value # df[t][2].value

\* C5: a clear_values that commits leaves no row, whatever the table held,
\* also when it held none or did not exist; a read of that store returns the
\* empty sequence; and clear_values raises nothing but a failure of the
\* storage itself.
C5_ClearEmpties ==
    [][\A s \in Sessions :
          /\ (pc[s] = "commit" /\ fn[s] = "clear_values" /\ toast'[s] = "cleared") =>
                (entries' = {} /\ read_values(entries', NoLimit) = <<>>)
          /\ (fn[s] = "clear_values" /\ pc'[s] = "aborted") =>
                raised'[s] = "StorageUnavailable"]_vars

C5_Witness ==
    /\ entries = {}
    /\ sqlite_sequence > 0
    /\ \E s, t \in Sessions : s # t /\ toast[s] = "cleared" /\ toast[t] = "cleared"

\* C6: a run whose number is missing or not finite answers with the
\* invalid-value notice and never enters add_value: it stages and holds
\* nothing, and no stored value is other than finite.
C6_NonFiniteRejected ==
    /\ \A s \in Sessions : number[s].k \in {"nan", "inf", "none"} =>
          /\ fn[s] = "read_values"
          /\ toast[s] \in {"enter_number", "must_be_finite"}
          /\ pend[s] = NoChange /\ dbWriter # s
    /\ \A r \in entries : r.value \in FiniteVals

C6_Witness ==
    /\ \E s \in Sessions : number[s] = PosInf /\ toast[s] = "must_be_finite"
    /\ \E s \in Sessions : number[s] = None_ /\ toast[s] = "enter_number"
    /\ Cardinality(entries) = 1

\* C9: a store call that fails on the storage changes no stored row and ends
\* the run with the exception, unswallowed.
C9_StorageFailureIsHard ==
    [][\A s \in Sessions :
          (raised'[s] = "StorageUnavailable" /\ raised[s] # "StorageUnavailable") =>
             (entries' = entries /\ pc'[s] = "aborted")]_vars

\* C10: a Lock that is held is released, also when the store call raises
\* inside the block, and a run that is at or inside a store call gets to its
\* end.
C10_NoIndefiniteBlocking ==
    /\ \A l \in Locks : (holder[l] # NoSession) ~> (holder[l] = NoSession)
    /\ \A s \in Sessions : (pc[s] # "idle") ~> (pc[s] = "idle")

C10_Witness ==
    \E s \in Sessions :
        /\ raised[s] = "StorageUnavailable"
        /\ DB_LOCK[s] # NoLock /\ holder[DB_LOCK[s]] = NoSession
        /\ \E t \in Sessions \ {s} : dbWriter = t

(***************************************************************************)
(* The rendering data's properties.                                        *)
(***************************************************************************)
Shown(key) == stat_items[key] = "digits"
PrefixSum(seq, k) == SumSeq(SubSeq(seq, 1, k))
Fits(n, d) == n <= FloatMax * d /\ -n <= FloatMax * d

\* No sum that the mean or the median takes leaves the floats' range.
SumsFit(xs) ==
    /\ \A k \in 1..Len(xs) : Fits(PrefixSum(xs, k), 1)
    /\ Len(xs) % 2 = 0 /\ Len(xs) > 0 =>
          Fits(Sorted(xs)[Len(xs) \div 2] + Sorted(xs)[Len(xs) \div 2 + 1], 1)

\* Nor does a deviation from the mean, its square, or a sum of the squares.
SquaresFit(xs) ==
    LET n == Len(xs)
        scaled == [i \in 1..n |-> n * xs[i] - SumSeq(xs)]
        squares == [i \in 1..n |-> scaled[i] * scaled[i]]
    IN /\ SumsFit(xs)
       /\ \A i \in 1..n : Fits(scaled[i], n) /\ Fits(squares[i], n * n)
       /\ \A k \in 1..n : Fits(PrefixSum(squares, k), n * n)

\* C7, as claimed: the count is shown for every N, 0 included; mean, median,
\* min and max are shown iff N >= 1; variance and standard deviation iff
\* N >= 2; skewness is not shown for N < 3, nor excess kurtosis for N < 4;
\* what is not shown is the placeholder.
C7_Thresholds ==
    rpc = "drawn" =>
        LET n == Len(x)
        IN /\ Shown("N") /\ stats.N = Rat(n, 1)
           /\ \A key \in {"Mean", "Median", "Min", "Max"} : Shown(key) <=> n >= 1
           /\ \A key \in {"Variance", "SD"} : Shown(key) <=> n >= 2
           /\ n < 3 => ~Shown("Skewness")
           /\ n < 4 => ~Shown("Kurtosis")
           /\ \A key \in StatKeys : ~Shown(key) => stat_items[key] = Placeholder

\* C7, amended: for N = 0 no statistic is listed, the count neither.  For
\* N >= 1 the count is shown and is N, min and max are shown, and mean and
\* median are shown unless their sum overflows; variance and standard
\* deviation are not shown for N < 2 and are shown for N >= 2 unless the
\* computation overflows; skewness is not shown for N < 3, nor excess
\* kurtosis for N < 4; a statistic is shown iff its value is finite, and is
\* the placeholder otherwise.
C7_ThresholdsAmended ==
    rpc = "drawn" =>
        LET n == Len(x)
        IN IF n = 0
           THEN stat_items = NoItems /\ stats = NoStats
           ELSE /\ Shown("N") /\ stats.N = Rat(n, 1)
                /\ Shown("Min") /\ Shown("Max")
                /\ SumsFit(x) => Shown("Mean") /\ Shown("Median")
                /\ \A key \in {"Variance", "SD"} :
                      /\ Shown(key) => n >= 2
                      /\ (n >= 2 /\ SquaresFit(x)) => Shown(key)
                /\ n < 3 => ~Shown("Skewness")
                /\ n < 4 => ~Shown("Kurtosis")
                /\ \A key \in StatKeys :
                      /\ Shown(key) <=> IsFinite(stats[key])
                      /\ ~Shown(key) => stat_items[key] = Placeholder

C7_Witness ==
    /\ rpc = "drawn"
    /\ Len(x) = 3
    /\ Shown("Mean") /\ Shown("Variance") /\ Shown("SD") /\ Shown("Skewness")
    /\ stat_items["Kurtosis"] = Placeholder

\* The values of xs in bin b of B equal-width bins between the doubled outer
\* edges e: each bin is closed on the left and open on the right, the last
\* closed on both sides.
InBin(xs, e, B, b) ==
    {i \in 1..Len(xs) :
        /\ e[1] * B + (b - 1) * (e[2] - e[1]) <= 2 * xs[i] * B
        /\ IF b = B THEN 2 * xs[i] <= e[2]
           ELSE 2 * xs[i] * B < e[1] * B + b * (e[2] - e[1])}
Binned(xs, e, B, cs) ==
    /\ Len(cs) = B
    /\ SumSeq(cs) = Len(xs)
    /\ \A b \in 1..B : cs[b] = Cardinality(InBin(xs, e, B, b))

====
